---- MODULE Spec2Model ----
(***************************************************************************)
(* CosmosContext (sdk/src/contexts/cosmos/context.ts) and the bridge route *)
(* that drives it, as a state machine.                                     *)
(*                                                                         *)
(* Every async method is a call record whose pc marks the await it is      *)
(* parked on.  The code between two awaits runs to completion on the       *)
(* JavaScript event loop, so one action is: the resolution of one awaited  *)
(* promise followed by the synchronous code up to the next await.          *)
(* The RPC nodes, the token bridge contracts and the wallet are the        *)
(* environment: each awaited network promise resolves or rejects.          *)
(***************************************************************************)
EXTENDS Integers, Sequences, FiniteSets, TLC

\* Number of method calls started over one behaviour.
MaxCalls == 3

\* The concurrent callers (async call chains in flight at the same time).
Procs == {"p1", "p2"}

(***************************************************************************)
(* Chain identity (WormholeContext.toChainId / toChainName).  A chain      *)
(* argument is a ChainName or a ChainId; ByName / ById are the two forms.  *)
(***************************************************************************)
ChainNames == {"ethereum", "osmosis", "wormchain"}

ChainIdOf == [ethereum |-> 2, osmosis |-> 20, wormchain |-> 3104]

ByName(n) == [name |-> n, id |-> 0]

ById(i) == [name |-> "", id |-> i]

toChainId(chain) == IF chain.id # 0 THEN chain.id ELSE ChainIdOf[chain.name]

toChainName(chain) ==
    IF chain.name # "" THEN chain.name
    ELSE CHOOSE n \in ChainNames : ChainIdOf[n] = chain.id

\* The chains that have a CosmosContext in the context registry.
CosmosChains == {"osmosis", "wormchain"}

\* JavaScript undefined / null, as the code tests them with `!x`.
Undefined == ""

Null == "<null>"

Falsy(x) == x \in {Undefined, Null}

NATIVE_DENOMS(name) ==
    CASE name = "osmosis" -> "uosmo"
      [] name = "wormchain" -> "uworm"
      [] OTHER -> Undefined

PREFIXES(name) ==
    CASE name = "osmosis" -> "osmo"
      [] name = "wormchain" -> "wormchain"
      [] OTHER -> Undefined

\* contracts.mustGetContracts(chain).token_bridge
TokenBridge(name) ==
    CASE name = "osmosis" -> "osmo1tokenbridge"
      [] name = "wormchain" -> "wormchain1tokenbridge"
      [] OTHER -> Undefined

(***************************************************************************)
(* Bytes and their encodings.  A byte string is a sequence of 0..255.      *)
(* bech32 is a bijection between (prefix, bytes) and the human address, so *)
(* a human address is the pair it encodes.  base64 and hex strings are     *)
(* tagged so that an encoded value is never equal to the bytes it encodes. *)
(***************************************************************************)
Repeat(b, n) == [i \in 1..n |-> b]

\* cosmos.humanAddress(prefix, canonical)
humanAddress(prefix, bytes) == [hrp |-> prefix, data |-> bytes]

\* cosmos.canonicalAddress(human)
canonicalAddress(human) == human.data

\* base64.encode(bytes) / Buffer.toString('base64')
Base64Encode(bytes) == <<"base64", bytes>>

\* What a reader that expects base64 makes of a value: garbage unless it is base64.
Base64Decode(b64) == IF b64[1] = "base64" THEN b64[2] ELSE "not base64"

\* A byte string handed over as a 0x-prefixed hex string, and arrayify of it.
HexString(bytes) == <<"hex", bytes>>

arrayify(hex) == hex[2]

\* Mutant: the first 20 bytes instead of the last 20.
Slice12_FromStart(bytes) == SubSeq(bytes, 1, 20)

\* transfer.to.slice(12): the bytes from index 12 to the end.
Slice12(bytes) == SubSeq(bytes, 13, Len(bytes))

\* zeroPad(value, length) of ethers: left-pads with zero bytes.
zeroPad(bytes, length) == Repeat(0, length - Len(bytes)) \o bytes

\* The hex digits of a byte string, two per byte, high digit first.
Nibbles(bytes) ==
    [i \in 1..(2 * Len(bytes)) |->
        IF i % 2 = 1 THEN bytes[(i + 1) \div 2] \div 16 ELSE bytes[i \div 2] % 16]

\* hexlify(bytes): the 0x-prefixed hex string, as its digits.
hexlify(bytes) == <<"0x", Nibbles(bytes)>>

LeadingZeros(digits) ==
    IF \A i \in 1..Len(digits) : digits[i] = 0 THEN Len(digits)
    ELSE (CHOOSE i \in 1..Len(digits) :
            digits[i] # 0 /\ \A j \in 1..(i - 1) : digits[j] = 0) - 1

\* hexStripZeros(value) of ethers: drops every leading zero digit.
hexStripZeros(hex) == <<"0x", SubSeq(hex[2], LeadingZeros(hex[2]) + 1, Len(hex[2]))>>

\* Buffer.from(digits, 'hex'): one byte per pair of digits; a trailing odd
\* digit is dropped.
BufferFromHex(digits) ==
    [i \in 1..(Len(digits) \div 2) |-> digits[2 * i - 1] * 16 + digits[2 * i]]

(***************************************************************************)
(* The inputs.  Signed VAAs are opaque byte strings named by an id;        *)
(* parseVaa + parseTokenTransferPayload recover the transfer they carry.   *)
(***************************************************************************)
VAAs == {"vaa1", "vaa2"}

parseTokenTransferPayload(signedVAA) ==
    CASE signedVAA = "vaa1" ->
           [toChain |-> 20, to |-> Repeat(0, 12) \o Repeat(17, 20)]
      [] signedVAA = "vaa2" ->
           [toChain |-> 3104, to |-> Repeat(9, 12) \o Repeat(34, 20)]

\* parseVaa(bytes): the header and body of a VAA.
parseVaa(signedVAA) ==
    CASE signedVAA = "vaa1" ->
           [emitterChain |-> 3104, emitterAddress |-> TokenBridge("wormchain"),
            sequence |-> "1", payload |-> "payload of vaa1"]
      [] signedVAA = "vaa2" ->
           [emitterChain |-> 20, emitterAddress |-> TokenBridge("osmosis"),
            sequence |-> "2", payload |-> "payload of vaa2"]

NoVaa == [emitterChain |-> 0, emitterAddress |-> "", sequence |-> "", payload |-> ""]

\* The source transactions: tx1 emitted the message of vaa1 on wormchain,
\* tx2 that of vaa2 on osmosis; tx3 and tx4 are osmosis transactions whose
\* logs lack the sequence and the sender.
TxIds == {"tx1", "tx2", "tx3", "tx4"}

TxChain(txId) == IF txId = "tx1" THEN "wormchain" ELSE "osmosis"

Attr(key, value) == [key |-> key, value |-> value]

\* The logs of a transaction: per log its events, per event its attributes.
TxLogs(txId) ==
    CASE txId = "tx1" ->
           << << << Attr("_contract_address", TokenBridge("wormchain")),
                    Attr("message.sender", TokenBridge("wormchain")),
                    Attr("message.sequence", "1") >> >> >>
      [] txId = "tx2" ->
           << << << Attr("transfer.recipient", "osmo1recipient") >>,
                 << Attr("message.sequence", "2") >> >>,
              << << Attr("message.sender", TokenBridge("osmosis")),
                    Attr("message.sequence", "9") >>,
                 << Attr("message.sender", "osmo1other") >> >> >>
      [] txId = "tx3" ->
           << << << Attr("message.sender", TokenBridge("osmosis")) >> >> >>
      [] txId = "tx4" ->
           << << << Attr("message.sequence", "4") >>,
                 << Attr("message.chain_id", "20") >> >> >>

\* tx.rawLog is the JSON text of the logs; cosmosLogs.parseRawLog reads it.
RawLog(logs) == <<"json", logs>>

parseRawLog(rawLog) == rawLog[2]

NoTransaction == [hash |-> "", rawLog |-> RawLog(<<>>)]

NoPayer == [hrp |-> "", data |-> <<>>]

Payers == {NoPayer, [hrp |-> "osmo", data |-> Repeat(5, 20)]}

NoToken == [chain |-> ByName("ethereum"), address |-> Undefined]

WETH == [chain |-> ByName("ethereum"), address |-> "0xWETH"]

TokenIds ==
    { WETH,
      [chain |-> ByName("osmosis"), address |-> "uosmo"],
      [chain |-> ById(20), address |-> "osmo1cw20"] }

ChainArgs == {ByName("osmosis"), ById(20), ByName("wormchain")}

\* sourceContext.formatAssetAddress(tokenId.address), base64-encoded, with
\* the chain id: the key of the wrapped_registry query.
RegistryKey(tokenId) ==
    [chain |-> toChainId(tokenId.chain),
     address |-> Base64Encode(<<"asset", tokenId.address>>)]

\* The wrapped asset the token bridge of a chain creates for WETH.
WrappedAddress(name) ==
    CASE name = "osmosis" -> "osmo1wrappedweth"
      [] name = "wormchain" -> "wormchain1wrappedweth"

VARIABLES
    wasmClient,   \* [CosmosChains -> 0 | client id]: each context's this.wasmClient
    connects,     \* [CosmosChains -> Nat]: CosmWasmClient.connect invocations per context
    clients,      \* Seq(chain name): the client instances created, by id; the chain each talks to
    calls,        \* [Procs -> call record]
    started,      \* number of calls started
    rpcs,         \* the chains with an entry in conf.rpcs
    registry,     \* chains whose token bridge has registered a wrapped WETH
    redeemed,     \* set of <<chain, vaa>>: VAAs the token bridge of chain has executed
    credits,      \* [VAAs -> Nat]: times the recipient of the VAA was credited
    observed,     \* the callers whose finished call stays on record until their next one
    codec,        \* an address on its way through formatAddress and parseAddress
    assetId,      \* two asset names on their way through formatAssetAddress
    defaults,     \* bridge defaults on their way through validateDefaults
    sent,         \* the source transactions that are confirmed on their chain
    signed        \* the VAAs the guardian network has signed

vars ==
    <<wasmClient, connects, clients, calls, started, rpcs, registry, redeemed, credits,
      observed, codec, assetId, defaults, sent, signed>>

NoTx == [msgs |-> <<>>, fee |-> <<>>, memo |-> ""]

IdleCall ==
    [pc |-> "idle", op |-> "none", ctx |-> "osmosis", chain |-> ByName("osmosis"),
     token |-> NoToken, vaa |-> "vaa1", payer |-> NoPayer,
     stage |-> "", target |-> "", client |-> 0, fa |-> Undefined, tx |-> NoTx,
     outcome |-> "", result |-> "", connects |-> 0, queries |-> <<>>,
     reply |-> "", regAtStart |-> FALSE, redAtStart |-> FALSE,
     txId |-> "", transaction |-> NoTransaction, vaaBytes |-> "", rawVaa |-> "",
     decoded |-> NoVaa]

Returns(c, value) == [c EXCEPT !.pc = "done", !.outcome = "returned", !.result = value]

Throws(c, error) == [c EXCEPT !.pc = "done", !.outcome = "raised", !.result = error]

(***************************************************************************)
(* The synchronous code of CosmosContext, as transformers of a call        *)
(* record.  Each returns the record at the next await (pc "connecting",    *)
(* "querying", "signing") or at the end of the call (pc "done").           *)
(***************************************************************************)
Request(kind, client, contract, arg) ==
    [kind |-> kind, client |-> client, contract |-> contract, arg |-> arg]

Sends(c, client, request) ==
    [c EXCEPT !.pc = "querying", !.client = client, !.queries = Append(@, request)]

\* Mutant: the hex string of the VAA goes out as it came in.
IsVaaRedeemed_Unencoded(c, client) ==
    Request("is_vaa_redeemed", client, TokenBridge(c.ctx), HexString(c.vaa))

\* The query of isTransferCompleted; c.vaa names the bytes of the hex string
\* signedVaa.
IsVaaRedeemed(c, client) ==
    Request("is_vaa_redeemed", client, TokenBridge(c.ctx),
            Base64Encode(arrayify(HexString(c.vaa))))

\* The request each method sends once getCosmWasmClient has handed it a
\* client: the code from that await to the next one.
UseClient(c, client) ==
    CASE c.stage = "asset" ->
           LET tokenBridgeAddress == TokenBridge(toChainName(c.chain)) IN
           IF Falsy(tokenBridgeAddress)
           THEN Throws([c EXCEPT !.client = client], "Token bridge contract not found")
           ELSE Sends(c, client,
                      Request("wrapped_registry", client, tokenBridgeAddress,
                              RegistryKey(c.token)))
      [] c.stage = "native" ->
           Sends(c, client,
                 Request("getBalance", client, "bank",
                         NATIVE_DENOMS(toChainName(c.chain))))
      [] c.stage = "balance" ->
           Sends(c, client, Request("balance", client, c.fa, "wallet"))
      [] c.stage = "completed" ->
           Sends(c, client, IsVaaRedeemed(c, client))
      [] c.stage = "height" ->
           Sends(c, client, Request("getHeight", client, "", ""))
      [] c.stage = "tx" ->
           Sends(c, client, Request("getTx", client, "", c.txId))

getCosmWasmClient(c, chain) ==
    IF wasmClient[c.ctx] = 0
    THEN LET name == toChainName(chain) IN
         IF name \notin rpcs
         THEN Throws(c, "RPC not configured")
         ELSE [c EXCEPT !.pc = "connecting", !.target = name, !.connects = @ + 1]
    ELSE UseClient(c, wasmClient[c.ctx])

getNativeBalance(c) ==
    getCosmWasmClient([c EXCEPT !.stage = "native"], ByName(toChainName(c.chain)))

\* Mutant: the result is handed on unchecked.
mustGetForeignAsset_Unchecked(c, assetAddress) == Returns(c, assetAddress)

mustGetForeignAsset(c, assetAddress) ==
    IF Falsy(assetAddress)
    THEN Throws(c, "token not registered")
    ELSE Returns(c, assetAddress)

\* Mutant: no special case for the native denomination.
getTokenBalance_NoNativeCase(c, assetAddress) ==
    IF Falsy(assetAddress) THEN Returns(c, Null)
    ELSE getCosmWasmClient([c EXCEPT !.stage = "balance"], c.chain)

getTokenBalance(c, assetAddress) ==
    IF Falsy(assetAddress) THEN Returns(c, Null)
    ELSE IF Falsy(NATIVE_DENOMS(toChainName(c.chain)))
    THEN Throws(c, "Native denomination not found")
    ELSE IF assetAddress = NATIVE_DENOMS(toChainName(c.chain))
    THEN getNativeBalance(c)
    ELSE getCosmWasmClient([c EXCEPT !.stage = "balance"], c.chain)

\* What happens with the value getForeignAsset resolves to: it is the
\* result of the call, or the caller (mustGetForeignAsset, getTokenBalance)
\* goes on with it.
ForeignAssetIs(c, address) ==
    LET c1 == [c EXCEPT !.fa = address] IN
    CASE c.op = "getForeignAsset" -> Returns(c1, address)
      [] c.op = "mustGetForeignAsset" -> mustGetForeignAsset(c1, address)
      [] c.op = "getTokenBalance" -> getTokenBalance(c1, address)

\* Mutant: the two chain arguments compared as given, not by chain id.
getForeignAsset_RawCompare(c) ==
    IF c.chain = c.token.chain
    THEN ForeignAssetIs(c, c.token.address)
    ELSE getCosmWasmClient([c EXCEPT !.stage = "asset"], c.chain)

getForeignAsset(c) ==
    IF toChainId(c.chain) = toChainId(c.token.chain)
    THEN ForeignAssetIs(c, c.token.address)
    ELSE getCosmWasmClient([c EXCEPT !.stage = "asset"], c.chain)

buildExecuteMsg(sender, contract, msg) ==
    [typeUrl |-> "/cosmwasm.wasm.v1.MsgExecuteContract",
     sender |-> sender, contract |-> contract, msg |-> msg]

\* CosmosContext.redeem builds the transaction; it awaits nothing.
redeem(c) ==
    LET chainName == toChainName(c.chain)
        transfer == parseTokenTransferPayload(c.vaa)
        denom == NATIVE_DENOMS(chainName)
        prefix == PREFIXES(chainName)
        recipient == humanAddress(prefix, Slice12(transfer.to))
    IN  IF Falsy(denom) THEN Throws(c, "Native denomination not found")
        ELSE IF Falsy(prefix) THEN Throws(c, "Prefix not found")
        ELSE IF Falsy(TokenBridge(chainName)) THEN Throws(c, "No token bridge found")
        ELSE [c EXCEPT !.tx =
                [msgs |-> << buildExecuteMsg(
                               IF c.payer # NoPayer THEN c.payer ELSE recipient,
                               TokenBridge(chainName),
                               [submit_vaa |-> [data |-> Base64Encode(c.vaa)]]) >>,
                 fee |-> <<"gas 1000000", "0.1", denom>>,
                 memo |-> "Wormhole - Complete Transfer"]]

isTransferCompleted(c) ==
    IF Falsy(TokenBridge(c.ctx))
    THEN Throws(c, "Token bridge contract not found")
    ELSE getCosmWasmClient([c EXCEPT !.stage = "completed"], c.chain)

getCurrentBlock(c) ==
    getCosmWasmClient([c EXCEPT !.stage = "height"], ByName(c.ctx))

RECURSIVE Flatten(_)
Flatten(seqs) == IF seqs = <<>> THEN <<>> ELSE Head(seqs) \o Flatten(Tail(seqs))

\* searchLogs(key, logs): the value of the first attribute with that key, in
\* the order of logs, events and attributes; null without one.
searchLogs(key, logs) ==
    LET attributes == Flatten(Flatten(logs))
        hits == {i \in 1..Len(attributes) : attributes[i].key = key}
    IN  IF hits = {} THEN Null
        ELSE attributes[CHOOSE i \in hits : \A j \in hits : i <= j].value

getSignedVAAWithRetry(chainId, emitterAddress, sequence) ==
    Request("getSignedVAAWithRetry", 0, "wormholeHosts",
            [chain |-> chainId, emitterAddress |-> emitterAddress,
             sequence |-> sequence, retryAttempts |-> 3])

\* Mutant: the emitter is not checked before the guardians are asked.
getVaaWithTx_EmitterUnchecked(c, tx) ==
    LET c1 == [c EXCEPT !.transaction = tx]
        logs == parseRawLog(tx.rawLog)
        sequence == searchLogs("message.sequence", logs)
        emitterAddress == searchLogs("message.sender", logs)
    IN  IF tx = NoTransaction THEN Throws(c1, "tx not found")
        ELSE IF Falsy(sequence) THEN Throws(c1, "sequence not found")
        ELSE [c1 EXCEPT !.pc = "fetching",
                        !.queries = Append(@, getSignedVAAWithRetry(
                                                 toChainId(c.chain), emitterAddress,
                                                 sequence))]

\* getVaa from the resolution of client.getTx to the guardian request
\* (lines 334-353); NoTransaction is the null of a transaction not found.
getVaaWithTx(c, tx) ==
    LET c1 == [c EXCEPT !.transaction = tx]
        logs == parseRawLog(tx.rawLog)
        sequence == searchLogs("message.sequence", logs)
        emitterAddress == searchLogs("message.sender", logs)
    IN  IF tx = NoTransaction THEN Throws(c1, "tx not found")
        ELSE IF Falsy(sequence) THEN Throws(c1, "sequence not found")
        ELSE IF Falsy(emitterAddress) THEN Throws(c1, "emitter not found")
        ELSE [c1 EXCEPT !.pc = "fetching",
                        !.queries = Append(@, getSignedVAAWithRetry(
                                                 toChainId(c.chain), emitterAddress,
                                                 sequence))]

\* Mutant: getVaa goes on to redeem the VAA it fetched.
getVaaWithBytes_ThenRedeems(c, vaaBytes) ==
    LET c1 == [c EXCEPT !.rawVaa = vaaBytes, !.decoded = parseVaa(vaaBytes),
                        !.vaa = vaaBytes]
        c2 == redeem(c1)
    IN  IF c2.pc = "done" THEN c2 ELSE [c2 EXCEPT !.pc = "signing"]

\* getVaa once the guardians have answered (lines 355-359).
getVaaWithBytes(c, vaaBytes) ==
    Returns([c EXCEPT !.rawVaa = vaaBytes, !.decoded = parseVaa(vaaBytes)], "vaa info")

getVaa(c) == getCosmWasmClient([c EXCEPT !.stage = "tx"], c.chain)

\* Mutant: a stub that takes the network client before it gives up.
send_ViaClient(c) == getCosmWasmClient([c EXCEPT !.stage = "height"], c.chain)

\* send and sendWithPayload throw before they return a promise; parseMessage
\* returns a rejected one.  Either way the call raises.
send(c) == Throws(c, "Method not implemented.")

sendWithPayload(c) == Throws(c, "Method not implemented.")

parseMessage(c) == Throws(c, "not implemented")

\* BridgeRoute.redeem: wh.redeem(destChain, vaa, ..., payer) on the context
\* of destChain, then signAndSendTransaction.
routeRedeem(c) ==
    LET c1 == redeem(c) IN
    IF c1.pc = "done" THEN c1 ELSE [c1 EXCEPT !.pc = "signing"]

\* BridgeRoute.send: wh.send(...) on the context of sendingChain, then
\* signAndSendTransaction.
routeSend(c) ==
    LET c1 == send(c) IN
    IF c1.pc = "done" THEN c1 ELSE [c1 EXCEPT !.pc = "signing"]

\* The synchronous start of a call, up to its first await.
Invoke(c) ==
    CASE c.op \in {"getForeignAsset", "mustGetForeignAsset", "getTokenBalance"} ->
           getForeignAsset(c)
      [] c.op = "getNativeBalance" -> getNativeBalance(c)
      [] c.op = "redeem" ->
           LET c1 == redeem(c) IN IF c1.pc = "done" THEN c1 ELSE Returns(c1, "tx")
      [] c.op = "routeRedeem" -> routeRedeem(c)
      [] c.op = "isTransferCompleted" -> isTransferCompleted(c)
      [] c.op = "getCurrentBlock" -> getCurrentBlock(c)
      [] c.op = "send" -> send(c)
      [] c.op = "sendWithPayload" -> sendWithPayload(c)
      [] c.op = "parseMessage" -> parseMessage(c)
      [] c.op = "getVaa" -> getVaa(c)
      [] c.op = "routeSend" -> routeSend(c)

(***************************************************************************)
(* The calls a behaviour may start.  A method of a context takes any chain *)
(* argument; the route reaches a context through the registry, by the      *)
(* destination chain.                                                      *)
(***************************************************************************)
NewCall(op, ctx, chain, token, vaa, payer) ==
    [IdleCall EXCEPT !.pc = "start", !.op = op, !.ctx = ctx, !.chain = chain,
                     !.token = token, !.vaa = vaa, !.payer = payer]

\* Foreign-asset resolution and the balance queries built on it.  None of
\* them reads this.chain, so one context stands for all.
AssetInputs ==
    { NewCall(op, "osmosis", chain, token, "vaa1", NoPayer) :
        op \in {"getForeignAsset", "mustGetForeignAsset", "getTokenBalance"},
        chain \in ChainArgs, token \in TokenIds }
    \cup { NewCall("getNativeBalance", "osmosis", chain, NoToken, "vaa1", NoPayer) :
             chain \in ChainArgs }

\* Redeem and the completion check.
RedeemInputs ==
    { NewCall("isTransferCompleted", ctx, chain, NoToken, vaa, NoPayer) :
        ctx \in CosmosChains, chain \in ChainArgs, vaa \in VAAs }
    \cup { NewCall("redeem", ctx, chain, NoToken, vaa, payer) :
             ctx \in CosmosChains, chain \in ChainArgs, vaa \in VAAs, payer \in Payers }
    \cup { NewCall("routeRedeem", toChainName(chain), chain, NoToken, vaa, payer) :
             chain \in ChainArgs, vaa \in VAAs, payer \in Payers }

\* getVaa of every transaction, for every chain, on every context.
VaaInputs ==
    { [NewCall("getVaa", ctx, chain, NoToken, "vaa1", NoPayer) EXCEPT !.txId = txId] :
        ctx \in CosmosChains, chain \in ChainArgs, txId \in TxIds }

\* What a second caller does to a call in flight, it does through the
\* context's client: it makes the context connect, to any chain, at any
\* moment.  These calls do that and nothing else.
ClientInputs ==
    { NewCall("getNativeBalance", ctx, chain, NoToken, "vaa1", NoPayer) :
        ctx \in CosmosChains, chain \in ChainArgs }
    \cup { NewCall("getCurrentBlock", ctx, ByName(ctx), NoToken, "vaa1", NoPayer) :
             ctx \in CosmosChains }

\* The operations CosmosContext does not implement, with every token,
\* sending chain and VAA, on every context.
UnimplementedInputs ==
    { NewCall(op, ctx, chain, token, "vaa1", NoPayer) :
        op \in {"send", "sendWithPayload"}, ctx \in CosmosChains,
        chain \in ChainArgs, token \in TokenIds \cup {NoToken} }
    \cup { NewCall("parseMessage", ctx, ByName(ctx), NoToken, vaa, NoPayer) :
             ctx \in CosmosChains, vaa \in VAAs }

\* The steps of a transfer as the orchestrator takes them, each on the
\* context of its chain: send, getVaa, redeem, isTransferCompleted.
FlowInputs ==
    { c \in VaaInputs \cup RedeemInputs \cup UnimplementedInputs :
        /\ c.chain = ByName(c.ctx)
        /\ c.payer = NoPayer
        /\ c.token \in {WETH, NoToken}
        /\ c.txId # "tx4"
        /\ c.op \notin {"parseMessage", "sendWithPayload"} }
    \cup { NewCall("routeSend", ctx, ByName(ctx), WETH, "vaa1", NoPayer) :
             ctx \in CosmosChains }

NoAddress == [hrp |-> "", data |-> <<>>]

IdleCodec ==
    [step |-> "idle", chain |-> "osmosis", address |-> NoAddress, universal |-> <<>>,
     form |-> "", parsed |-> NoAddress]

IdleAssetId == [step |-> "idle", a |-> "", b |-> "", idA |-> <<>>, idB |-> <<>>]

NoDefaults == [fromNetwork |-> "", toNetwork |-> "", token |-> "", requiredNetwork |-> ""]

IdleDefaults == [step |-> "idle", given |-> NoDefaults, valid |-> NoDefaults]

\* The contexts as the registry constructs them, before any call.
Fresh ==
    /\ wasmClient = [x \in CosmosChains |-> 0]
    /\ connects = [x \in CosmosChains |-> 0]
    /\ clients = <<>>
    /\ calls = [p \in Procs |-> IdleCall]
    /\ started = 0
    /\ registry = {}
    /\ redeemed = {}
    /\ credits = [v \in VAAs |-> 0]

\* No asset name and no bridge defaults under way.
NoPureInput == assetId = IdleAssetId /\ defaults = IdleDefaults

\* Every transfer was sent and attested before the first call.
AllAttested == sent = TxIds /\ signed = VAAs

\* One observed caller and one that only interferes through the client.
Init ==
    /\ Fresh
    /\ observed = {"p1"}
    /\ codec = IdleCodec
    /\ NoPureInput
    /\ AllAttested
    /\ rpcs \in {CosmosChains, {"osmosis"}}

\* Two observed callers.
InitClient ==
    /\ Fresh
    /\ observed = Procs
    /\ codec = IdleCodec
    /\ NoPureInput
    /\ AllAttested
    /\ rpcs \in {CosmosChains, {"osmosis"}}

\* The call of p moves on to record c: a connect it now waits for is one
\* more CosmWasmClient.connect invocation of its context.  The result of a
\* caller that is not observed is dropped when its call ends.
Commit(p, c) ==
    /\ calls' = [calls EXCEPT ![p] = IF c.pc = "done" /\ p \notin observed
                                     THEN IdleCall ELSE c]
    /\ UNCHANGED <<observed, codec, assetId, defaults, sent, signed>>
    /\ connects' =
         IF c.pc = "connecting" THEN [connects EXCEPT ![c.ctx] = @ + 1] ELSE connects

Start(p, inputs) ==
    /\ calls[p].pc \in {"idle", "done"}
    /\ started < MaxCalls
    /\ started' = started + 1
    /\ \E input \in inputs :
         Commit(p, Invoke([input EXCEPT
                             !.regAtStart = toChainName(input.chain) \in registry,
                             !.redAtStart =
                                <<toChainName(input.chain), input.vaa>> \in redeemed]))
    /\ UNCHANGED <<wasmClient, clients, rpcs, registry, redeemed, credits>>

\* Mutant: the client kept in a field that all contexts share.
ConnectResolves_SharedClient(p) ==
    /\ calls[p].pc = "connecting"
    /\ LET client == Len(clients) + 1 IN
         /\ clients' = Append(clients, calls[p].target)
         /\ wasmClient' = [x \in CosmosChains |-> client]
         /\ Commit(p, UseClient(calls[p], client))
    /\ UNCHANGED <<started, rpcs, registry, redeemed, credits>>

\* CosmWasmClient.connect(rpc) resolves: line 384 assigns the new client.
ConnectResolves(p) ==
    /\ calls[p].pc = "connecting"
    /\ LET client == Len(clients) + 1 IN
         /\ clients' = Append(clients, calls[p].target)
         /\ wasmClient' = [wasmClient EXCEPT ![calls[p].ctx] = client]
         /\ Commit(p, UseClient(calls[p], client))
    /\ UNCHANGED <<started, rpcs, registry, redeemed, credits>>

ConnectRejects(p) ==
    /\ calls[p].pc = "connecting"
    /\ Commit(p, Throws(calls[p], "connect failed"))
    /\ UNCHANGED <<wasmClient, clients, started, rpcs, registry, redeemed, credits>>

LastQuery(c) == c.queries[Len(c.queries)]

\* The chain whose node the request of c went to.
Node(c) == clients[LastQuery(c).client]

\* The contracts a chain hosts.
Hosts(name, contract) ==
    \/ contract = TokenBridge(name)
    \/ name \in registry /\ contract = WrappedAddress(name)
    \/ name = "osmosis" /\ contract = "osmo1cw20"

\* The node can answer the request of c.
Answerable(c) ==
    LET q == LastQuery(c) IN
    CASE q.kind = "wrapped_registry" ->
           /\ q.contract = TokenBridge(Node(c))
           /\ Node(c) \in registry
           /\ q.arg = RegistryKey(WETH)
      [] q.kind \in {"balance", "is_vaa_redeemed"} -> Hosts(Node(c), q.contract)
      [] OTHER -> TRUE

\* An awaited request rejects: getForeignAsset catches it (lines 180-182),
\* every other method lets it propagate.
Rejected(c, reason) ==
    IF c.stage = "asset"
    THEN ForeignAssetIs([c EXCEPT !.reply = reason], Null)
    ELSE Throws([c EXCEPT !.reply = reason], reason)

\* client.getTx(txId) on the node of a chain: the transaction, or null.
ChainTx(name, txId) ==
    IF txId \in sent /\ TxChain(txId) = name
    THEN [hash |-> txId, rawLog |-> RawLog(TxLogs(txId))]
    ELSE NoTransaction

Resolved(c) ==
    LET q == LastQuery(c)
        c1 == [c EXCEPT !.reply = "ok"] IN
    CASE q.kind = "wrapped_registry" -> ForeignAssetIs(c1, WrappedAddress(Node(c)))
      [] q.kind = "getBalance" -> Returns(c1, "native balance")
      [] q.kind = "balance" -> Returns(c1, "token balance")
      [] q.kind = "is_vaa_redeemed" ->
           Returns(c1, IF <<Node(c), Base64Decode(q.arg)>> \in redeemed
                       THEN "true" ELSE "false")
      [] q.kind = "getHeight" -> Returns(c1, "height")
      [] q.kind = "getTx" -> getVaaWithTx(c1, ChainTx(Node(c), q.arg))

QueryResolves(p) ==
    /\ calls[p].pc = "querying"
    /\ Answerable(calls[p])
    /\ Commit(p, Resolved(calls[p]))
    /\ UNCHANGED <<wasmClient, clients, started, rpcs, registry, redeemed, credits>>

\* The contract answers with an error: no such wrapped asset, no such contract.
ContractErrors(p) ==
    /\ calls[p].pc = "querying"
    /\ ~Answerable(calls[p])
    /\ Commit(p, Rejected(calls[p], "contract error"))
    /\ UNCHANGED <<wasmClient, clients, started, rpcs, registry, redeemed, credits>>

\* The request fails on the way: timeout, RPC error, malformed response.
RequestFails(p) ==
    /\ calls[p].pc = "querying"
    /\ Commit(p, Rejected(calls[p], "rpc failure"))
    /\ UNCHANGED <<wasmClient, clients, started, rpcs, registry, redeemed, credits>>

\* The token bridge of a chain registers the wrapped asset of WETH.
RegisterWrapped(name) ==
    /\ name \notin registry
    /\ registry' = registry \cup {name}
    /\ UNCHANGED <<wasmClient, connects, clients, calls, started, rpcs, redeemed, credits,
                   observed, codec, assetId, defaults, sent, signed>>

(***************************************************************************)
(* signAndSendTransaction(destChainName, tx, RECEIVING): the wallet sends  *)
(* the transaction to the destination chain, whose token bridge executes   *)
(* submit_vaa once per VAA and only for transfers addressed to its chain.  *)
(***************************************************************************)
SubmittedVaa(c) == Base64Decode(c.tx.msgs[1].msg.submit_vaa.data)

Redeemable(name, c) ==
    /\ SubmittedVaa(c) \in signed
    /\ c.tx.msgs[1].contract = TokenBridge(name)
    /\ parseTokenTransferPayload(SubmittedVaa(c)).toChain = ChainIdOf[name]

TxExecutes(p) ==
    LET c == calls[p]
        name == toChainName(c.chain)
        vaa == SubmittedVaa(c) IN
    /\ c.pc = "signing"
    /\ Redeemable(name, c)
    /\ <<name, vaa>> \notin redeemed
    /\ redeemed' = redeemed \cup {<<name, vaa>>}
    /\ credits' = [credits EXCEPT ![vaa] = @ + 1]
    /\ Commit(p, Returns(c, "txid"))
    /\ UNCHANGED <<wasmClient, clients, started, rpcs, registry>>

\* The chain rejects the transaction: already completed, not for it, or not
\* signed by the guardians.
TxRejected(p) ==
    LET c == calls[p]
        name == toChainName(c.chain) IN
    /\ c.pc = "signing"
    /\ \/ ~Redeemable(name, c)
       \/ <<name, SubmittedVaa(c)>> \in redeemed
    /\ Commit(p, Throws(c, "transaction rejected"))
    /\ UNCHANGED <<wasmClient, clients, started, rpcs, registry, redeemed, credits>>

\* The wallet declines or the broadcast fails.
TxFails(p) ==
    /\ calls[p].pc = "signing"
    /\ Commit(p, Throws(calls[p], "transaction not sent"))
    /\ UNCHANGED <<wasmClient, clients, started, rpcs, registry, redeemed, credits>>

(***************************************************************************)
(* The source chains and the guardian network.  A transfer's transaction   *)
(* is confirmed on its source chain; the guardians sign the VAA of a       *)
(* confirmed transaction; getSignedVAAWithRetry resolves with the signed   *)
(* VAA of the emitter and sequence asked for, or rejects.                  *)
(***************************************************************************)
SourceTx(vaa) == IF vaa = "vaa1" THEN "tx1" ELSE "tx2"

TxConfirms(txId) ==
    /\ txId \notin sent
    /\ sent' = sent \cup {txId}
    /\ UNCHANGED <<wasmClient, connects, clients, calls, started, rpcs, registry, redeemed,
                   credits, observed, codec, assetId, defaults, signed>>

GuardiansSign(vaa) ==
    /\ vaa \notin signed
    /\ SourceTx(vaa) \in sent
    /\ signed' = signed \cup {vaa}
    /\ UNCHANGED <<wasmClient, connects, clients, calls, started, rpcs, registry, redeemed,
                   credits, observed, codec, assetId, defaults, sent>>

Attests(vaa, q) ==
    /\ parseVaa(vaa).emitterChain = q.arg.chain
    /\ parseVaa(vaa).emitterAddress = q.arg.emitterAddress
    /\ parseVaa(vaa).sequence = q.arg.sequence

GuardianResolves(p) ==
    /\ calls[p].pc = "fetching"
    /\ \E vaa \in signed :
         /\ Attests(vaa, LastQuery(calls[p]))
         /\ Commit(p, getVaaWithBytes([calls[p] EXCEPT !.vaaBytes = vaa], vaa))
    /\ UNCHANGED <<wasmClient, clients, started, rpcs, registry, redeemed, credits>>

\* No guardian has the VAA within the attempts made.
GuardianRejects(p) ==
    /\ calls[p].pc = "fetching"
    /\ Commit(p, Throws(calls[p], "VAA not found"))
    /\ UNCHANGED <<wasmClient, clients, started, rpcs, registry, redeemed, credits>>

NextAsset ==
    \/ Start("p1", AssetInputs)
    \/ Start("p2", {c \in ClientInputs : c.ctx = "osmosis"})
    \/ \E p \in Procs : ConnectResolves(p)
    \/ \E p \in Procs : ConnectRejects(p)
    \/ \E p \in Procs : QueryResolves(p)
    \/ \E p \in Procs : ContractErrors(p)
    \/ \E p \in Procs : RequestFails(p)
    \/ \E name \in CosmosChains : RegisterWrapped(name)

SpecAsset == Init /\ [][NextAsset]_vars

NextRedeem ==
    \/ Start("p1", RedeemInputs)
    \/ Start("p2", ClientInputs)
    \/ \E p \in Procs : ConnectResolves(p)
    \/ \E p \in Procs : ConnectRejects(p)
    \/ \E p \in Procs : QueryResolves(p)
    \/ \E p \in Procs : ContractErrors(p)
    \/ \E p \in Procs : RequestFails(p)
    \/ \E p \in Procs : TxExecutes(p)
    \/ \E p \in Procs : TxRejected(p)
    \/ \E p \in Procs : TxFails(p)

SpecRedeem == Init /\ [][NextRedeem]_vars

\* The methods that need the network client, each on its own chain or
\* another, from both callers.
NextClient ==
    \/ \E p \in Procs :
         Start(p, ClientInputs
                    \cup {c \in AssetInputs \cup RedeemInputs :
                            /\ c.op \in {"getForeignAsset", "getTokenBalance",
                                         "isTransferCompleted"}
                            /\ c.token \in {WETH, NoToken}
                            /\ c.chain = ByName(c.ctx)
                            /\ c.vaa = "vaa1"})
    \/ \E p \in Procs : ConnectResolves(p)
    \/ \E p \in Procs : ConnectRejects(p)
    \/ \E p \in Procs : QueryResolves(p)
    \/ \E p \in Procs : ContractErrors(p)
    \/ \E p \in Procs : RequestFails(p)

SpecClient == InitClient /\ [][NextClient]_vars

\* No transfer was sent yet.
InitFlow ==
    /\ Fresh
    /\ observed = {"p1"}
    /\ codec = IdleCodec
    /\ NoPureInput
    /\ sent = {}
    /\ signed = {}
    /\ rpcs = CosmosChains

\* One getVaa after another, on either context for any chain, while
\* transactions confirm and the guardians sign.
NextVaa ==
    \/ Start("p1", VaaInputs)
    \/ \E p \in Procs : ConnectResolves(p)
    \/ \E p \in Procs : ConnectRejects(p)
    \/ \E p \in Procs : QueryResolves(p)
    \/ \E p \in Procs : RequestFails(p)
    \/ \E p \in Procs : GuardianResolves(p)
    \/ \E p \in Procs : GuardianRejects(p)
    \/ \E txId \in TxIds : TxConfirms(txId)
    \/ \E vaa \in VAAs : GuardiansSign(vaa)

SpecVaa == InitFlow /\ [][NextVaa]_vars

\* The transfer flow: one orchestrator, the source chains, the guardians
\* and the destination chains.
NextFlow ==
    \/ Start("p1", FlowInputs)
    \/ \E p \in Procs : ConnectResolves(p)
    \/ \E p \in Procs : ConnectRejects(p)
    \/ \E p \in Procs : QueryResolves(p)
    \/ \E p \in Procs : RequestFails(p)
    \/ \E p \in Procs : GuardianResolves(p)
    \/ \E p \in Procs : GuardianRejects(p)
    \/ \E p \in Procs : TxExecutes(p)
    \/ \E p \in Procs : TxRejected(p)
    \/ \E p \in Procs : TxFails(p)
    \/ \E txId \in TxIds : TxConfirms(txId)
    \/ \E vaa \in VAAs : GuardiansSign(vaa)

SpecFlow == InitFlow /\ [][NextFlow]_vars

\* The unimplemented operations, called while a second caller makes the
\* contexts connect.
NextUnimplemented ==
    \/ Start("p1", UnimplementedInputs)
    \/ Start("p2", ClientInputs)
    \/ \E p \in Procs : ConnectResolves(p)
    \/ \E p \in Procs : ConnectRejects(p)
    \/ \E p \in Procs : QueryResolves(p)
    \/ \E p \in Procs : RequestFails(p)

SpecUnimplemented == Init /\ [][NextUnimplemented]_vars

(***************************************************************************)
(* formatAddress and parseAddress, applied to native addresses of the      *)
(* context's chain.  parseAddress takes `any`: the 32 bytes themselves, or *)
(* their 0x-prefixed hex string.                                           *)
(***************************************************************************)
formatAddress(address) == zeroPad(canonicalAddress(address), 32)

BytesArg(bytes) == [isString |-> FALSE, bytes |-> bytes, hex |-> <<"0x", <<>>>>]

StringArg(hex) == [isString |-> TRUE, bytes |-> <<>>, hex |-> hex]

parseAddress(chain, address) ==
    LET prefix == PREFIXES(chain)
        addr == IF address.isString /\ address.hex[1] = "0x"
                THEN BufferFromHex(hexStripZeros(address.hex)[2])
                ELSE address.bytes
    IN  IF Falsy(prefix) THEN NoAddress ELSE humanAddress(prefix, addr)

\* Number of leading address bytes that vary over the inputs.
LeadLen == 2

LeadBytes == {0, 1, 16, 171}

Leads == [1..LeadLen -> LeadBytes]

\* Canonical Cosmos addresses are 20 bytes (accounts) or 32 bytes (contracts).
AddressLengths == {20, 32}

NativeAddresses(chain) ==
    { humanAddress(PREFIXES(chain), lead \o Repeat(171, n - LeadLen)) :
        lead \in Leads, n \in AddressLengths }

InitCodec ==
    /\ Fresh
    /\ observed = {"p1"}
    /\ rpcs = CosmosChains
    /\ NoPureInput
    /\ AllAttested
    /\ \E chain \in CosmosChains : \E address \in NativeAddresses(chain) :
         codec = [IdleCodec EXCEPT !.step = "input", !.chain = chain, !.address = address]

FramedCodec ==
    UNCHANGED <<wasmClient, connects, clients, calls, started, rpcs, registry, redeemed,
                credits, observed, assetId, defaults, sent, signed>>

FormatAddress ==
    /\ codec.step = "input"
    /\ codec' = [codec EXCEPT !.step = "formatted", !.universal = formatAddress(codec.address)]
    /\ FramedCodec

ParseAddressBytes ==
    /\ codec.step = "formatted"
    /\ codec' = [codec EXCEPT !.step = "parsed", !.form = "bytes",
                              !.parsed = parseAddress(codec.chain, BytesArg(codec.universal))]
    /\ FramedCodec

ParseAddressHex ==
    /\ codec.step = "formatted"
    /\ codec' = [codec EXCEPT !.step = "parsed", !.form = "hex",
                              !.parsed = parseAddress(codec.chain,
                                                      StringArg(hexlify(codec.universal)))]
    /\ FramedCodec

NextCodec == FormatAddress \/ ParseAddressBytes \/ ParseAddressHex

SpecCodec == InitCodec /\ [][NextCodec]_vars

(***************************************************************************)
(* formatAssetAddress and buildTokenId.  keccak256 is the function of the  *)
(* Keccak standard; its digests of the asset names used here are tabled.   *)
(***************************************************************************)
AssetNames == {"uosmo", "uworm", "uatom", "osmosis", "wormchain", "osmo1cw20", "0xWETH"}

\* The 32 bytes of Keccak-256 over the UTF-8 bytes of the name.
Keccak256Digest(name) ==
    CASE name = "uosmo" ->
           <<113, 227, 41, 113, 73, 127, 151, 253, 43, 43, 75, 141, 252, 251, 146, 206,
             223, 105, 20, 71, 20, 46, 223, 83, 151, 225, 186, 243, 60, 140, 58, 19>>
      [] name = "uworm" ->
           <<133, 12, 13, 237, 120, 241, 182, 158, 199, 183, 155, 158, 229, 146, 251, 188,
             172, 235, 201, 125, 177, 198, 149, 34, 10, 131, 49, 53, 191, 167, 72, 36>>
      [] name = "uatom" ->
           <<222, 180, 234, 80, 117, 32, 187, 82, 204, 49, 34, 216, 130, 198, 91, 103,
             25, 136, 237, 106, 0, 172, 55, 246, 175, 139, 64, 239, 73, 152, 40, 218>>
      [] name = "osmosis" ->
           <<17, 144, 203, 197, 120, 112, 77, 44, 106, 10, 159, 56, 242, 247, 60, 95,
             177, 74, 216, 108, 7, 146, 210, 9, 250, 228, 176, 36, 163, 245, 109, 67>>
      [] name = "wormchain" ->
           <<30, 87, 203, 88, 127, 243, 165, 91, 165, 122, 244, 51, 161, 58, 86, 134,
             91, 84, 128, 90, 48, 23, 89, 64, 132, 211, 19, 101, 230, 126, 238, 35>>
      [] name = "osmo1cw20" ->
           <<215, 221, 21, 1, 43, 157, 217, 128, 89, 134, 42, 149, 52, 229, 181, 214,
             11, 101, 49, 105, 36, 167, 13, 190, 13, 163, 206, 206, 105, 215, 44, 52>>
      [] name = "0xWETH" ->
           <<114, 97, 145, 191, 45, 25, 180, 132, 34, 249, 156, 128, 41, 155, 220, 97,
             177, 70, 85, 254, 177, 30, 7, 222, 88, 22, 150, 234, 177, 9, 118, 195>>

\* keccak256(Buffer.from(address, 'utf-8')): the 0x-prefixed hex string.
keccak256(address) == hexlify(Keccak256Digest(address))

\* buildTokenId(address): 64 hex digits.  substring(4) drops "0x" and the
\* first two digits of the digest.
buildTokenId(address) ==
    LET isNative == ~Falsy(NATIVE_DENOMS(address))
        digits == keccak256(address)[2]
    IN  (IF isNative THEN <<0, 1>> ELSE <<0, 0>>) \o SubSeq(digits, 3, Len(digits))

formatAssetAddress(address) == BufferFromHex(buildTokenId(address))

InitAssetId ==
    /\ Fresh
    /\ observed = {"p1"}
    /\ rpcs = CosmosChains
    /\ codec = IdleCodec
    /\ defaults = IdleDefaults
    /\ AllAttested
    /\ \E a \in AssetNames, b \in AssetNames :
         assetId = [IdleAssetId EXCEPT !.step = "input", !.a = a, !.b = b]

FramedAssetId ==
    UNCHANGED <<wasmClient, connects, clients, calls, started, rpcs, registry, redeemed,
                credits, observed, codec, defaults, sent, signed>>

FormatAssetAddressFirst ==
    /\ assetId.step = "input"
    /\ assetId' = [assetId EXCEPT !.step = "first", !.idA = formatAssetAddress(assetId.a)]
    /\ FramedAssetId

FormatAssetAddressSecond ==
    /\ assetId.step = "first"
    /\ assetId' = [assetId EXCEPT !.step = "both", !.idB = formatAssetAddress(assetId.b)]
    /\ FramedAssetId

NextAssetId == FormatAssetAddressFirst \/ FormatAssetAddressSecond

SpecAssetId == InitAssetId /\ [][NextAssetId]_vars

(***************************************************************************)
(* validateDefaults.  CHAINS and TOKENS are the configured chains and      *)
(* tokens; a field that is undefined, or the empty string, is not set.     *)
(***************************************************************************)
CHAINS(name) ==
    CASE name = "ethereum" -> [key |-> "ethereum"]
      [] name = "osmosis" -> [key |-> "osmosis"]
      [] OTHER -> [key |-> Undefined]

\* A token with a tokenId is a contract token; one without is the native
\* token of its nativeNetwork.
TOKENS(token) ==
    CASE token = "ETH" -> [key |-> "ETH", tokenId |-> Undefined, nativeNetwork |-> "ethereum"]
      [] token = "WETH" -> [key |-> "WETH", tokenId |-> "0xWETH", nativeNetwork |-> "ethereum"]
      [] token = "OSMO" -> [key |-> "OSMO", tokenId |-> Undefined, nativeNetwork |-> "osmosis"]
      [] OTHER -> [key |-> Undefined, tokenId |-> Undefined, nativeNetwork |-> Undefined]

validateDefaults(given) ==
    LET fromNetwork == given.fromNetwork
        toNetwork == given.toNetwork
        token == given.token
        requiredNetwork == given.requiredNetwork
        v1 == IF ~Falsy(fromNetwork) /\ Falsy(CHAINS(fromNetwork).key)
              THEN [given EXCEPT !.fromNetwork = Undefined] ELSE given
        v2 == IF ~Falsy(toNetwork) /\ Falsy(CHAINS(toNetwork).key)
              THEN [v1 EXCEPT !.toNetwork = Undefined] ELSE v1
        v3 == IF ~Falsy(toNetwork) /\ ~Falsy(fromNetwork) /\ toNetwork = fromNetwork
              THEN [v2 EXCEPT !.toNetwork = Undefined] ELSE v2
        v4 == IF ~Falsy(toNetwork) /\ ~Falsy(fromNetwork) /\ ~Falsy(requiredNetwork)
              THEN IF \/ Falsy(CHAINS(requiredNetwork).key)
                      \/ toNetwork # requiredNetwork /\ fromNetwork # requiredNetwork
                   THEN [v3 EXCEPT !.requiredNetwork = Undefined] ELSE v3
              ELSE v3
        v5 == IF ~Falsy(token) /\ Falsy(TOKENS(token).key)
              THEN [v4 EXCEPT !.token = Undefined] ELSE v4
    IN  IF /\ ~Falsy(v5.fromNetwork)
           /\ ~Falsy(v5.token)
           /\ Falsy(TOKENS(v5.token).tokenId)
           /\ TOKENS(v5.token).nativeNetwork # CHAINS(v5.fromNetwork).key
        THEN [v5 EXCEPT !.token = Undefined] ELSE v5

NetworkValues == {Undefined, "ethereum", "osmosis", "bogus"}

TokenValues == {Undefined, "ETH", "WETH", "OSMO", "FOO"}

InitDefaults ==
    /\ Fresh
    /\ observed = {"p1"}
    /\ rpcs = CosmosChains
    /\ codec = IdleCodec
    /\ assetId = IdleAssetId
    /\ AllAttested
    /\ \E f \in NetworkValues, t \in NetworkValues, r \in NetworkValues, k \in TokenValues :
         defaults = [IdleDefaults EXCEPT
                        !.step = "given",
                        !.given = [fromNetwork |-> f, toNetwork |-> t, token |-> k,
                                   requiredNetwork |-> r]]

ValidateDefaults ==
    /\ defaults.step = "given"
    /\ defaults' = [defaults EXCEPT !.step = "validated",
                                    !.valid = validateDefaults(defaults.given)]
    /\ UNCHANGED <<wasmClient, connects, clients, calls, started, rpcs, registry, redeemed,
                   credits, observed, codec, assetId, sent, signed>>

NextDefaults == ValidateDefaults

SpecDefaults == InitDefaults /\ [][NextDefaults]_vars

(***************************************************************************)
(* Properties.                                                             *)
(***************************************************************************)
Finished(p, op) == calls[p].op = op /\ calls[p].pc = "done"

Returned(p, op) == Finished(p, op) /\ calls[p].outcome = "returned"

SameChain(c) == toChainId(c.chain) = toChainId(c.token.chain)

QueriesOfKind(c, kind) == {i \in 1..Len(c.queries) : c.queries[i].kind = kind}

\* C1: within one context, CosmWasmClient.connect is invoked at most once
\* over the context's lifetime, and every caller of getCosmWasmClient is
\* handed the same client instance.
C1_SingleFlight ==
    /\ \A x \in CosmosChains : connects[x] <= 1
    /\ \A p, q \in Procs :
         (/\ calls[p].client # 0
          /\ calls[q].client # 0
          /\ calls[p].ctx = calls[q].ctx) => calls[p].client = calls[q].client

\* C2: no VAA credits its recipient more than once; a redeem the route
\* has sent with success has that VAA executed on the destination chain;
\* and isTransferCompleted(destChain, vaa), asked of the destination chain's
\* context after the VAA was executed there, returns true whenever it returns.
C2_RedeemIdempotent ==
    /\ \A v \in VAAs : credits[v] <= 1
    /\ \A p \in Procs :
         Returned(p, "routeRedeem") =>
            /\ <<toChainName(calls[p].chain), calls[p].vaa>> \in redeemed
            /\ credits[calls[p].vaa] = 1
    /\ \A p \in Procs :
         (/\ Returned(p, "isTransferCompleted")
          /\ calls[p].ctx = toChainName(calls[p].chain)
          /\ calls[p].redAtStart) => calls[p].result = "true"

\* C2's case: the completion check of a VAA redeemed before, answered.
C2_Witness ==
    \E p \in Procs :
        /\ Returned(p, "isTransferCompleted")
        /\ calls[p].ctx = toChainName(calls[p].chain)
        /\ calls[p].redAtStart
        /\ credits[calls[p].vaa] = 1

\* C4: getForeignAsset(tokenId, chain) with chain resolving to the chain id
\* of tokenId.chain returns tokenId.address unchanged, and the call neither
\* connects, nor takes a client, nor sends a request, cached client or not.
C4_SameChainNoNetwork ==
    \A p \in Procs :
        (calls[p].op = "getForeignAsset" /\ SameChain(calls[p])) =>
            /\ calls[p].pc = "done"
            /\ calls[p].outcome = "returned"
            /\ calls[p].result = calls[p].token.address
            /\ calls[p].connects = 0
            /\ calls[p].client = 0
            /\ calls[p].queries = <<>>

\* C4's case: a same-chain lookup, the chain named in the other form than
\* in the token id, on a context that holds a client.
C4_Witness ==
    \E p \in Procs :
        /\ Returned(p, "getForeignAsset")
        /\ SameChain(calls[p])
        /\ calls[p].chain # calls[p].token.chain
        /\ wasmClient[calls[p].ctx] # 0

\* C5: a wrapped-registry query that fails on the way (timeout, RPC error,
\* malformed response) never gives the caller the null that a registry miss
\* gives it.
C5_FailureIsNotMiss ==
    \A p \in Procs :
        (Finished(p, "getForeignAsset") /\ calls[p].reply = "rpc failure") =>
            ~(calls[p].outcome = "returned" /\ calls[p].result = Null)

\* C6: for WETH, whose home chain is not the queried chain: a lookup that
\* returns while no wrapped asset is registered on the queried chain returns
\* null, and a lookup started after the registration returns the registered
\* wrapped address, never null and never another address.
C6_RegisteredAddressStable ==
    \A p \in Procs :
        (Returned(p, "getForeignAsset") /\ calls[p].token = WETH) =>
            /\ toChainName(calls[p].chain) \notin registry => calls[p].result = Null
            /\ calls[p].regAtStart =>
                 calls[p].result = WrappedAddress(toChainName(calls[p].chain))

\* C7: mustGetForeignAsset returns the address getForeignAsset resolved to
\* whenever that is an address, throws 'token not registered' exactly when
\* getForeignAsset resolved to no address, and never returns null or an
\* empty address.
C7_MustGetForeignAsset ==
    \A p \in Procs :
        Finished(p, "mustGetForeignAsset") =>
            /\ calls[p].outcome = "returned" =>
                 ~Falsy(calls[p].result) /\ calls[p].result = calls[p].fa
            /\ ~Falsy(calls[p].fa) => calls[p].outcome = "returned"
            /\ calls[p].fa = Null <=>
                 (calls[p].outcome = "raised" /\ calls[p].result = "token not registered")

\* C7's case: getForeignAsset resolved to null and the call threw.
C7_Witness ==
    \E p \in Procs :
        /\ Finished(p, "mustGetForeignAsset")
        /\ calls[p].fa = Null
        /\ calls[p].result = "token not registered"

\* C8: getTokenBalance returns null when the token has no foreign asset on
\* the chain, and only then; when the foreign asset is the chain's native
\* denomination it asks the bank for the native balance and never sends a
\* contract balance query; otherwise it never asks the bank and sends its
\* contract balance query to the foreign asset only: one when it returns,
\* none or one when the connect or the query fails.
C8_TokenBalanceRouting ==
    \A p \in Procs :
        LET c == calls[p]
            contractQueries == QueriesOfKind(c, "balance")
            bankQueries == QueriesOfKind(c, "getBalance")
            denom == NATIVE_DENOMS(toChainName(c.chain))
        IN  c.op = "getTokenBalance" =>
              /\ Falsy(c.fa) => contractQueries = {} /\ bankQueries = {}
              /\ (c.pc = "done" /\ c.fa = Null) =>
                   c.outcome = "returned" /\ c.result = Null
              /\ (c.outcome = "returned" /\ c.result = Null) => c.fa = Null
              /\ c.fa = denom =>
                   /\ contractQueries = {}
                   /\ \A i \in bankQueries : c.queries[i].arg = denom
                   /\ c.outcome = "returned" =>
                        Cardinality(bankQueries) = 1 /\ c.result = "native balance"
              /\ (~Falsy(c.fa) /\ c.fa # denom) =>
                   /\ bankQueries = {}
                   /\ Cardinality(contractQueries) <= 1
                   /\ \A i \in contractQueries : c.queries[i].contract = c.fa
                   /\ c.outcome = "returned" =>
                        Cardinality(contractQueries) = 1 /\ c.result = "token balance"

\* C8's case: the native path, taken on a same-chain native token.
C8_Witness ==
    \E p \in Procs :
        /\ Returned(p, "getTokenBalance")
        /\ calls[p].fa = NATIVE_DENOMS(toChainName(calls[p].chain))
        /\ calls[p].result = "native balance"

C10_AddressRoundTrip ==
    codec.step = "parsed" => codec.parsed = codec.address

\* The native units of the chain family that the context knows.
NativeUnits == {NATIVE_DENOMS(name) : name \in CosmosChains}

\* C11: formatAssetAddress yields 32 bytes: the first is 1 when the input is
\* a native unit (uosmo, uworm) and 0 otherwise, the other 31 are the last
\* 31 bytes of the Keccak-256 digest of the name; and two different native
\* unit names never get the same id.
C11_AssetAddress ==
    assetId.step = "both" =>
        /\ Len(assetId.idA) = 32
        /\ assetId.idA[1] = (IF assetId.a \in NativeUnits THEN 1 ELSE 0)
        /\ \A i \in 2..32 : assetId.idA[i] = Keccak256Digest(assetId.a)[i]
        /\ (/\ assetId.a \in NativeUnits
            /\ assetId.b \in NativeUnits
            /\ assetId.a # assetId.b) => assetId.idA # assetId.idB

\* The chain whose endpoint the call of c needs: the one it hands to
\* getCosmWasmClient.
NetworkChain(c) == IF c.op = "getCurrentBlock" THEN c.ctx ELSE toChainName(c.chain)

\* The call of c cannot finish without the network.
NeedsNetwork(c) ==
    \/ c.op \in {"getNativeBalance", "getCurrentBlock", "isTransferCompleted",
                 "getTokenBalance"}
    \/ c.op \in {"getForeignAsset", "mustGetForeignAsset"} /\ ~SameChain(c)

\* C12: a context is constructed whatever the configuration holds, and a
\* call that needs the network for a chain without an RPC endpoint fails
\* with 'RPC not configured' at once: it connects to nothing, takes no
\* client, another chain's least of all, and sends no request.
C12_LazyConfiguration ==
    \A p \in Procs :
        LET c == calls[p] IN
        (NeedsNetwork(c) /\ NetworkChain(c) \notin rpcs) =>
            /\ c.pc = "done"
            /\ c.outcome = "raised"
            /\ c.result = "RPC not configured"
            /\ c.connects = 0
            /\ c.client = 0
            /\ c.queries = <<>>

Unimplemented == {"send", "sendWithPayload", "parseMessage"}

\* C13: send, sendWithPayload and parseMessage raise a not-implemented
\* error on every call, whatever the arguments and whatever the context
\* holds; the call creates no client and sends nothing, and the step that
\* makes it leaves every context's client and connect count as they were.
C13_NotImplemented ==
    /\ [](\A p \in Procs :
            calls[p].op \in Unimplemented =>
                /\ calls[p].pc = "done"
                /\ calls[p].outcome = "raised"
                /\ calls[p].result \in {"Method not implemented.", "not implemented"}
                /\ calls[p].connects = 0
                /\ calls[p].client = 0
                /\ calls[p].queries = <<>>)
    /\ [][\A p \in Procs :
            (calls'[p] # calls[p] /\ calls'[p].op \in Unimplemented) =>
                UNCHANGED <<wasmClient, connects, clients>>]_vars

\* C13's case: an unimplemented operation called on a context that holds a
\* client, with a token and a sending chain of its own.
C13_Witness ==
    \E p \in Procs :
        /\ calls[p].op = "sendWithPayload"
        /\ calls[p].pc = "done"
        /\ calls[p].token = WETH
        /\ wasmClient[calls[p].ctx] # 0

\* C14: contexts are independent.  A step of a call on one context changes
\* neither the client nor the connect count of any other context, whether
\* the step starts the call, creates the client or fails to; no context
\* holds the client instance of another, and no call is handed a client that
\* another context holds.
C14_ContextsIndependent ==
    /\ [](/\ \A x, y \in CosmosChains :
               (x # y /\ wasmClient[x] # 0) => wasmClient[x] # wasmClient[y]
          /\ \A p \in Procs : \A x \in CosmosChains :
               (calls[p].client # 0 /\ x # calls[p].ctx) =>
                   wasmClient[x] # calls[p].client)
    /\ [][/\ \A p \in Procs : \A x \in CosmosChains :
               (calls'[p] # calls[p] /\ x # calls'[p].ctx) =>
                   wasmClient'[x] = wasmClient[x] /\ connects'[x] = connects[x]
          /\ calls' = calls => wasmClient' = wasmClient /\ connects' = connects]_vars

\* C14's case: a connect of one context has failed while the other context
\* holds a client, and a call on that other context has returned.
C14_Witness ==
    \E p, q \in Procs :
        /\ calls[p].ctx # calls[q].ctx
        /\ calls[p].pc = "done" /\ calls[p].result = "connect failed"
        /\ wasmClient[calls[p].ctx] = 0
        /\ calls[q].pc = "done" /\ calls[q].outcome = "returned"
        /\ calls[q].client = wasmClient[calls[q].ctx]
        /\ calls[q].client # 0

\* The call of c has built or submitted a transaction.
Transacts(c) == c.tx # NoTx \/ c.pc = "signing"

\* The chain has executed the redeem of the VAA.
Executed(vaa) == \E name \in CosmosChains : <<name, vaa>> \in redeemed

\* C15: no operation takes a step of the transfer flow that is not its own:
\* send and its route fetch no attestation and build no redeem, getVaa
\* builds and submits no transaction, redeem and its route ask neither the
\* guardians nor for completion, isTransferCompleted only asks.  A transfer
\* counts as redeemed, isTransferCompleted returning true, only once the
\* chain has executed its VAA, whatever redeem built or submitted; a VAA is
\* executed only if the guardians signed it, signed only if its source
\* transaction was confirmed; and the VAA getVaa returns is a signed one.
C15_FlowNotChained ==
    /\ \A p \in Procs :
         LET c == calls[p] IN
         /\ c.op \in {"send", "sendWithPayload", "routeSend"} =>
              c.queries = <<>> /\ ~Transacts(c) /\ c.pc # "fetching"
         /\ c.op = "getVaa" =>
              ~Transacts(c) /\ QueriesOfKind(c, "is_vaa_redeemed") = {}
         /\ c.op \in {"redeem", "routeRedeem"} =>
              c.queries = <<>> /\ c.pc # "fetching"
         /\ c.op = "isTransferCompleted" =>
              /\ ~Transacts(c) /\ c.pc # "fetching"
              /\ \A i \in 1..Len(c.queries) : c.queries[i].kind = "is_vaa_redeemed"
         /\ (Returned(p, "isTransferCompleted") /\ c.result = "true") => Executed(c.vaa)
         /\ Returned(p, "getVaa") => c.rawVaa \in signed
    /\ \A vaa \in VAAs :
         /\ Executed(vaa) => vaa \in signed
         /\ vaa \in signed => SourceTx(vaa) \in sent

\* C15's case: a transfer gone through the whole flow, its completion
\* confirmed by the destination chain.
C15_Witness ==
    \E p \in Procs :
        /\ Returned(p, "isTransferCompleted")
        /\ calls[p].result = "true"
        /\ calls[p].vaa \in signed
        /\ SourceTx(calls[p].vaa) \in sent
        /\ credits[calls[p].vaa] = 1

\* The values the logs of a transaction carry under a key.
LogValues(txId, key) ==
    LET attributes == Flatten(Flatten(TxLogs(txId))) IN
    {attributes[i].value : i \in {j \in 1..Len(attributes) : attributes[j].key = key}}

GuardianQueries(c) == QueriesOfKind(c, "getSignedVAAWithRetry")

\* The node the call of c asked has no transaction c.txId.
TxNotFound(c) == c.txId \notin sent \/ TxChain(c.txId) # clients[c.client]

\* C16: getVaa asks the guardians at most once, for the transaction it was
\* given, with a sequence and an emitter that the logs of that transaction
\* carry under message.sequence and message.sender; when the transaction is
\* not found, or its logs carry no sequence, or no sender, the call fails
\* with no guardian query made; and when it returns, rawVaa is the bytes the
\* guardians answered with and vaa is parseVaa of those bytes.
C16_GetVaa ==
    \A p \in Procs :
        LET c == calls[p] IN
        c.op = "getVaa" =>
            /\ Cardinality(GuardianQueries(c)) <= 1
            /\ \A i \in GuardianQueries(c) :
                 /\ c.transaction.hash = c.txId
                 /\ c.queries[i].arg.sequence \in LogValues(c.txId, "message.sequence")
                 /\ c.queries[i].arg.emitterAddress \in LogValues(c.txId, "message.sender")
            /\ c.transaction # NoTransaction =>
                 /\ c.transaction.hash = c.txId
                 /\ ~TxNotFound(c)
            /\ (c.client # 0 /\ TxNotFound(c)) \/ c.transaction = NoTransaction =>
                 /\ GuardianQueries(c) = {}
                 /\ c.reply = "ok" => c.outcome = "raised" /\ c.result = "tx not found"
            /\ LogValues(c.txId, "message.sequence") = {} =>
                 /\ GuardianQueries(c) = {}
                 /\ c.transaction # NoTransaction =>
                      c.outcome = "raised" /\ c.result = "sequence not found"
            /\ LogValues(c.txId, "message.sender") = {} =>
                 /\ GuardianQueries(c) = {}
                 /\ c.transaction # NoTransaction =>
                      c.outcome = "raised" /\ c.result = "emitter not found"
            /\ c.outcome = "returned" =>
                 /\ c.pc = "done"
                 /\ Cardinality(GuardianQueries(c)) = 1
                 /\ c.rawVaa = c.vaaBytes
                 /\ c.decoded = parseVaa(c.vaaBytes)
                 /\ c.transaction.hash = c.txId

\* C16's case: getVaa has returned the VAA of a transaction whose logs carry
\* more than one sequence and more than one sender.
C16_Witness ==
    \E p \in Procs :
        /\ Returned(p, "getVaa")
        /\ calls[p].txId = "tx2"
        /\ calls[p].rawVaa = "vaa2"
        /\ calls[p].decoded.sequence = "2"

ConfiguredChains == {"ethereum", "osmosis"}

ConfiguredTokens == {"ETH", "WETH", "OSMO"}

\* The token exists on the chain: as a contract token, or as its native one.
ExistsOn(token, network) ==
    token \in {"WETH"} \/ (token = "ETH" /\ network = "ethereum")
                       \/ (token = "OSMO" /\ network = "osmosis")

\* C17: the defaults validateDefaults returns are consistent: a network
\* still set is a configured chain, a token still set is a configured token
\* that exists on the fromNetwork still set, fromNetwork and toNetwork
\* differ when both are set, and a requiredNetwork still set is the
\* fromNetwork or the toNetwork still set.
C17_DefaultsConsistent ==
    LET v == defaults.valid IN
    defaults.step = "validated" =>
        /\ \A n \in {v.fromNetwork, v.toNetwork, v.requiredNetwork} :
             n # Undefined => n \in ConfiguredChains
        /\ v.token # Undefined =>
             /\ v.token \in ConfiguredTokens
             /\ v.fromNetwork # Undefined => ExistsOn(v.token, v.fromNetwork)
        /\ (v.fromNetwork # Undefined /\ v.toNetwork # Undefined) =>
             v.fromNetwork # v.toNetwork
        /\ v.requiredNetwork # Undefined =>
             v.requiredNetwork \in {v.fromNetwork, v.toNetwork}

====
